---- MODULE Spec2Model ----
(***************************************************************************)
(* Model of example_imf.py: the ImfData loader (_read_data) and the        *)
(* derived-quantity methods calc_b, calc_v, calc_clock, calc_epsilon.      *)
(*                                                                         *)
(* Strings are sequences of pieces; a piece is a whitespace character      *)
(* (" ", "\t", "\n") or an indivisible word ("#START", "1998", "x", ...).  *)
(* The string a sequence denotes is the concatenation of its pieces.       *)
(***************************************************************************)
EXTENDS Integers, Sequences, FiniteSets, TLC

\* ------------------------------------------------------------------ bounds
MaxLines == 3       \* lines in the file on disk (Spec)
MaxUserLines == 2   \* lines in the file on disk (SpecUser)
MaxEofReads == 2    \* readline() calls observed after end-of-file
MaxVer == 2         \* array objects allocated under one derived key
OverrideVal == 7    \* the value a user stores in an overriding array

\* ------------------------------------------------------- string primitives
WS == {" ", "\t", "\n"}

SENTINEL == <<"#START">>

RECURSIVE LStrip(_)
LStrip(s) == IF s # <<>> /\ Head(s) \in WS THEN LStrip(Tail(s)) ELSE s

RECURSIVE RStrip(_)
RStrip(s) ==
    IF s # <<>> /\ s[Len(s)] \in WS THEN RStrip(SubSeq(s, 1, Len(s) - 1)) ELSE s

\* str.strip(): drop leading and trailing whitespace
Strip(s) == RStrip(LStrip(s))

\* the first whitespace-free run of s
RECURSIVE WordOf(_)
WordOf(s) ==
    IF s = <<>> \/ Head(s) \in WS THEN <<>> ELSE <<Head(s)>> \o WordOf(Tail(s))

\* str.split(): the maximal whitespace-free runs, in order
RECURSIVE Split(_)
Split(s) ==
    LET t == LStrip(s)
        w == WordOf(t)
    IN  IF t = <<>> THEN <<>>
        ELSE <<w>> \o Split(SubSeq(t, Len(w) + 1, Len(t)))

\* ' '.join(toks)
RECURSIVE Join(_)
Join(toks) ==
    IF toks = <<>> THEN <<>>
    ELSE IF Len(toks) = 1 THEN toks[1]
    ELSE toks[1] \o <<" ">> \o Join(Tail(toks))

\* seq[:n]
Take(s, n) == SubSeq(s, 1, IF Len(s) < n THEN Len(s) ELSE n)

\* seq[n:]  (0-based n)
Drop(s, n) == IF Len(s) <= n THEN <<>> ELSE SubSeq(s, n + 1, Len(s))

\* ------------------------------------------------------ numeric conversion
\* the numerals of the alphabet and the number each denotes
IntOf ==
    [p \in {"1998", "00", "01", "02", "12", "13", "23", "30", "31", "59",
            "0", "3", "4", "-1"} |->
        CASE p = "1998" -> 1998
          [] p = "00" -> 0   [] p = "01" -> 1   [] p = "02" -> 2
          [] p = "12" -> 12  [] p = "13" -> 13  [] p = "23" -> 23
          [] p = "30" -> 30  [] p = "31" -> 31  [] p = "59" -> 59
          [] p = "0" -> 0    [] p = "3" -> 3    [] p = "4" -> 4
          [] p = "-1" -> -1]

FloatTok == DOMAIN IntOf
DigitTok == FloatTok \ {"-1"}

\* float(tok) succeeds
IsFloat(tok) == Len(tok) = 1 /\ tok[1] \in FloatTok
FloatOf(tok) == IntOf[tok[1]]

DaysInMonth(y, m) ==
    IF m = 2 THEN (IF y % 4 = 0 /\ (y % 100 # 0 \/ y % 400 = 0) THEN 29 ELSE 28)
    ELSE IF m \in {4, 6, 9, 11} THEN 30 ELSE 31

\* a piece matched by a strptime directive: digits only, within the
\* directive's width and range
Directive(p, width, lo, hi) ==
    /\ p \in DigitTok
    /\ IF width = 4 THEN p = "1998" ELSE p # "1998"
    /\ IntOf[p] >= lo /\ IntOf[p] <= hi

\* datetime.strptime(t, '%Y %m %d %H %M %S')
Strptime(t) ==
    IF ~ ( /\ Len(t) = 11
           /\ \A j \in {2, 4, 6, 8, 10} : t[j] = " "
           /\ Directive(t[1], 4, 0, 9999)
           /\ Directive(t[3], 2, 1, 12)
           /\ Directive(t[5], 2, 1, 31)
           /\ Directive(t[7], 2, 0, 23)
           /\ Directive(t[9], 2, 0, 59)
           /\ Directive(t[11], 2, 0, 61) )
    THEN [kind |-> "mismatch", val |-> <<0>>]
    ELSE IF \/ IntOf[t[5]] > DaysInMonth(IntOf[t[1]], IntOf[t[3]])
            \/ IntOf[t[11]] > 59
    THEN [kind |-> "range", val |-> <<0>>]
    ELSE [kind |-> "ok",
          val |-> <<IntOf[t[1]], IntOf[t[3]], IntOf[t[5]],
                    IntOf[t[7]], IntOf[t[9]], IntOf[t[11]]>>]

\* ------------------------------------------------------------------ inputs
TS == <<"1998", " ", "01", " ", "01", " ", "00", " ", "00", " ", "00">>

LineSet ==
    { <<"x">>,                                   \* free header text
      <<>>,                                      \* blank line
      <<"#START">>,
      <<" ", "#START", "\t">>,                   \* padded sentinel
      <<"#START", " ", "x">>,                    \* sentinel among other text
      TS,                                        \* timestamp only
      <<"1998", "\t", "12", " ", "31", " ", "23", " ", "59", " ", "59",
        " ", "0", " ", "-1", " ", "3">>,         \* two values
      TS \o <<" ", "x", " ", "3", " ", "4", " ", "0", " ", "-1", " ", "0",
              " ", "0", " ", "4", " ", "3", " ", "4">>,   \* sixteen tokens
      <<"1998", " ", "13", " ", "01", " ", "00", " ", "00", " ", "00",
        " ", "0", " ", "3">>,                    \* month 13
      <<"1998", " ", "02", " ", "30", " ", "00", " ", "00", " ", "00",
        " ", "0", " ", "3">>,                    \* 30 February
      TS \o <<" ", "0", " ", "3", " ", "x", " ", "4">> }  \* non-numeric value

RECURSIVE FilesUpTo(_)
FilesUpTo(n) ==
    IF n = 0 THEN {<<>>}
    ELSE LET S == FilesUpTo(n - 1)
         IN  S \cup {Append(f, l) : f \in {g \in S : Len(g) = n - 1}, l \in LineSet}

ExistingPath == "imf.dat"

FileNames ==
    { [type |-> "str", val |-> ExistingPath],
      [type |-> "str", val |-> "missing.dat"],
      [type |-> "int", val |-> "42"] }

\* ------------------------------------------------------------------- state
VARIABLES filename, disk, pc, err, ioCount, fpos, line, eofReads,
          lines, idx, data, ver

vars == <<filename, disk, pc, err, ioCount, fpos, line, eofReads,
          lines, idx, data, ver>>

keys == <<"bx", "by", "bz", "vx", "vy", "vz", "rho", "temp">>
BaseKeys == {keys[j] : j \in 1..Len(keys)}
Derived == {"b", "v", "clock", "epsilon"}

NoErr == [kind |-> "none", msg |-> "none", arg |-> <<>>]

EmptyDict == [k \in {} |-> <<>>]

\* np.zeros(n); the unset slot of the object array `time` is written <<0>>
Zeros(n) == [j \in 1..n |-> 0]
ZerosObj(n) == [j \in 1..n |-> <<0>>]

\* ImfData.__init__ up to the call of _read_data
InitWith(n) ==
    /\ filename \in FileNames
    /\ disk \in FilesUpTo(n)
    /\ pc = "init"
    /\ err = NoErr
    /\ ioCount = 0
    /\ fpos = 0
    /\ line = <<>>
    /\ eofReads = 0
    /\ lines = <<>>
    /\ idx = 0
    /\ data = EmptyDict
    /\ ver = [k \in Derived |-> 0]

Init == InitWith(MaxLines)

\* ------------------------------------------------------------------ loader
\* _read_data without its type check
CheckTypeNone ==
    /\ pc = "init"
    /\ pc' = "open"
    /\ UNCHANGED <<filename, disk, err, ioCount, fpos, line, eofReads,
                   lines, idx, data, ver>>

\* the type check at the head of _read_data
CheckType ==
    /\ pc = "init"
    /\ IF filename.type # "str"
       THEN /\ pc' = "error"
            /\ err' = [kind |-> "TypeError",
                       msg |-> "Input file name must be a string.",
                       arg |-> <<>>]
       ELSE /\ pc' = "open"
            /\ err' = err
    /\ UNCHANGED <<filename, disk, ioCount, fpos, line, eofReads,
                   lines, idx, data, ver>>

\* f.readline() at position p of the file on disk: the line with its newline,
\* or the empty string at end-of-file (every line of the file is taken to be
\* newline-terminated; strip() and split() drop the newline either way)
ReadLine(p) == IF p < Len(disk) THEN Append(disk[p + 1], "\n") ELSE <<>>

\* open(self.file, 'r') and the first f.readline()
Open ==
    /\ pc = "open"
    /\ IF filename.val # ExistingPath
       THEN /\ pc' = "error"
            /\ err' = [kind |-> "IOError",
                       msg |-> "No such file or directory", arg |-> <<>>]
            /\ ioCount' = ioCount + 1
            /\ UNCHANGED <<fpos, line, eofReads>>
       ELSE /\ pc' = "skip"
            /\ err' = err
            /\ ioCount' = ioCount + 2
            /\ line' = ReadLine(fpos)
            /\ fpos' = IF fpos < Len(disk) THEN fpos + 1 ELSE fpos
            /\ eofReads' = IF fpos < Len(disk) THEN eofReads ELSE eofReads + 1
    /\ UNCHANGED <<filename, disk, lines, idx, data, ver>>

\* the loop test trimming trailing whitespace only
AtSentinelRStrip(l) == RStrip(l) = SENTINEL

\* the loop test of the header-skip loop
AtSentinel(l) == Strip(l) = SENTINEL

\* one iteration of  while line.strip() != '#START': line = f.readline()
SkipLine ==
    /\ pc = "skip"
    /\ ~ AtSentinel(line)
    /\ eofReads < MaxEofReads
    /\ line' = ReadLine(fpos)
    /\ fpos' = IF fpos < Len(disk) THEN fpos + 1 ELSE fpos
    /\ eofReads' = IF fpos < Len(disk) THEN eofReads ELSE eofReads + 1
    /\ ioCount' = ioCount + 1
    /\ UNCHANGED <<filename, disk, pc, err, lines, idx, data, ver>>

\* f.readlines() losing the last line
ReadLinesShort(p) == [j \in 1..(Len(disk) - p - 1) |-> Append(disk[p + j], "\n")]

\* f.readlines() at position p
ReadLines(p) == [j \in 1..(Len(disk) - p) |-> Append(disk[p + j], "\n")]

\* the dictionary after the zero-filled arrays are created
ZeroData(n) ==
    [k \in {"time"} \cup BaseKeys |-> IF k = "time" THEN ZerosObj(n) ELSE Zeros(n)]

\* loop exit, f.readlines(), f.close(), and the allocation of the arrays
Slurp ==
    /\ pc = "skip"
    /\ AtSentinel(line)
    /\ lines' = ReadLines(fpos)
    /\ fpos' = Len(disk)
    /\ ioCount' = ioCount + 2
    /\ data' = ZeroData(Len(ReadLines(fpos)))
    /\ idx' = 0
    /\ pc' = IF Len(ReadLines(fpos)) = 0 THEN "done" ELSE "parse"
    /\ UNCHANGED <<filename, disk, err, line, eofReads, ver>>

\* the values taken from token 6 on
ValuesFrom6(parts) == Take(Drop(parts, 6), Len(keys))

\* the tokens zip(keys, parts[7:]) pairs with the field names
Values(parts) == Take(Drop(parts, 7), Len(keys))

\* how many leading pairs are assigned before float() raises (all, if none does)
RECURSIVE Assignable(_)
Assignable(vals) ==
    IF vals = <<>> \/ ~ IsFloat(Head(vals)) THEN 0
    ELSE 1 + Assignable(Tail(vals))

KeyIndex(k) == CHOOSE j \in 1..Len(keys) : keys[j] = k

\* the dictionary after the body of the parse loop has run on line number n
\* (1-based) holding l, as far as it gets
ParseInto(d, n, l) ==
    LET parts == Split(l)
        r == Strptime(Join(Take(parts, 6)))
        vals == Values(parts)
        m == Assignable(vals)
    IN  IF r.kind # "ok" THEN d
        ELSE [k \in DOMAIN d |->
                IF k = "time" THEN [d[k] EXCEPT ![n] = r.val]
                ELSE IF k \in BaseKeys /\ KeyIndex(k) <= m
                     THEN [d[k] EXCEPT ![n] = FloatOf(vals[KeyIndex(k)])]
                     ELSE d[k]]

\* the exception the body of the parse loop raises on l, if any
ParseError(l) ==
    LET parts == Split(l)
        tNow == Join(Take(parts, 6))
        r == Strptime(tNow)
        vals == Values(parts)
        m == Assignable(vals)
    IN  IF r.kind = "mismatch"
        THEN [kind |-> "ValueError", msg |-> "does not match format", arg |-> tNow]
        ELSE IF r.kind = "range"
        THEN [kind |-> "ValueError", msg |-> "day is out of range for month",
              arg |-> <<>>]
        ELSE IF m < Len(vals)
        THEN [kind |-> "ValueError", msg |-> "could not convert string to float",
              arg |-> vals[m + 1]]
        ELSE NoErr

\* one iteration of  for i, l in enumerate(lines)
ParseLine ==
    /\ pc = "parse"
    /\ idx < Len(lines)
    /\ data' = ParseInto(data, idx + 1, lines[idx + 1])
    /\ err' = ParseError(lines[idx + 1])
    /\ IF ParseError(lines[idx + 1]) # NoErr
       THEN pc' = "error" /\ idx' = idx
       ELSE /\ idx' = idx + 1
            /\ pc' = IF idx + 1 = Len(lines) THEN "done" ELSE "parse"
    /\ UNCHANGED <<filename, disk, ioCount, fpos, line, eofReads, lines, ver>>

\* ------------------------------------------------------- derived quantities
\* Floating-point results are kept as exact terms: Lit(n) is the number n,
\* every other term is the named function applied to its arguments.
Lit(n) == [op |-> "lit", a |-> <<n>>, sub |-> <<>>]

\* numpy.sqrt(n) for an integer n >= 0
SqrtT(n) ==
    IF \E r \in 0..n : r * r = n
    THEN Lit(CHOOSE r \in 0..n : r * r = n)
    ELSE [op |-> "sqrt", a |-> <<n>>, sub |-> <<>>]

\* numpy.arctan2(y, x)
Atan2T(y, x) ==
    IF y = 0 /\ x >= 0 THEN Lit(0)
    ELSE [op |-> "atan2", a |-> <<y, x>>, sub |-> <<>>]

\* conv * v * b**2 * sin(clock/2)**4
EpsT(v, b, c) == [op |-> "eps", a |-> <<>>, sub |-> <<v, b, c>>]

\* self[k] = val
Put(d, k, val) == [x \in DOMAIN d \cup {k} |-> IF x = k THEN val ELSE d[x]]

\* calc_b adding to the array already stored instead of replacing it
BMagAccum(d) ==
    [j \in 1..Len(d["bx"]) |->
        LET m == SqrtT(d["bx"][j] * d["bx"][j] + d["by"][j] * d["by"][j]
                       + d["bz"][j] * d["bz"][j])
        IN  IF "b" \in DOMAIN d
            THEN [op |-> "add", a |-> <<>>, sub |-> <<d["b"][j], m>>]
            ELSE m]

\* sqrt(self['bx']**2 + self['by']**2 + self['bz']**2)
BMag(d) ==
    [j \in 1..Len(d["bx"]) |->
        SqrtT(d["bx"][j] * d["bx"][j] + d["by"][j] * d["by"][j]
              + d["bz"][j] * d["bz"][j])]

\* sqrt(self['vx']**2 + self['vy']**2 + self['vz']**2)
VMag(d) ==
    [j \in 1..Len(d["vx"]) |->
        SqrtT(d["vx"][j] * d["vx"][j] + d["vy"][j] * d["vy"][j]
              + d["vz"][j] * d["vz"][j])]

\* np.arctan2(self['by'], self['bz'])
ClockAngle(d) == [j \in 1..Len(d["by"]) |-> Atan2T(d["by"][j], d["bz"][j])]

\* the dictionary after calc_b
CalcB(d) == Put(d, "b", BMag(d))

\* calc_v flipping the sign of vx in place on the way
CalcVNegate(d) ==
    Put(Put(d, "v", VMag(d)), "vx", [j \in 1..Len(d["vx"]) |-> 0 - d["vx"][j]])

\* the dictionary after calc_v
CalcV(d) == Put(d, "v", VMag(d))

\* the dictionary after calc_clock
CalcClock(d) == Put(d, "clock", ClockAngle(d))

\* the prerequisite step recomputing b, v and clock unconditionally
PrereqsAlways(d) == CalcClock(CalcV(CalcB(d)))

\* the dictionary after the prerequisite step of calc_epsilon
Prereqs(d) ==
    LET d1 == IF "b" \notin DOMAIN d THEN CalcB(d) ELSE d
        d2 == IF "v" \notin DOMAIN d1 THEN CalcV(d1) ELSE d1
    IN  IF "clock" \notin DOMAIN d2 THEN CalcClock(d2) ELSE d2

\* calc_epsilon without the check for clock: the formula raises KeyError
\* and stores nothing when clock is missing
CalcEpsilonNoClock(d) ==
    LET d1 == IF "b" \notin DOMAIN d THEN CalcB(d) ELSE d
        d2 == IF "v" \notin DOMAIN d1 THEN CalcV(d1) ELSE d1
    IN  IF "clock" \notin DOMAIN d2 THEN d2
        ELSE Put(d2, "epsilon",
                 [j \in 1..Len(d2["v"]) |->
                     EpsT(d2["v"][j], d2["b"][j], d2["clock"][j])])

\* the dictionary after calc_epsilon
CalcEpsilon(d) ==
    LET p == Prereqs(d)
    IN  Put(p, "epsilon",
            [j \in 1..Len(p["v"]) |-> EpsT(p["v"][j], p["b"][j], p["clock"][j])])

\* every key whose stored array differs, or is new, gets a new object under it;
\* a call that assigns its own key always stores a new object there
Bump(own, d, e) ==
    [k \in Derived |->
        IF k \in own \/ (k \in DOMAIN e /\ k \notin DOMAIN d)
           \/ (k \in DOMAIN e /\ k \in DOMAIN d /\ e[k] # d[k])
        THEN ver[k] + 1 ELSE ver[k]]

Loaded == pc = "done"

calc_b ==
    /\ Loaded
    /\ ver["b"] < MaxVer
    /\ data' = CalcB(data)
    /\ ver' = Bump({"b"}, data, CalcB(data))
    /\ UNCHANGED <<filename, disk, pc, err, ioCount, fpos, line, eofReads,
                   lines, idx>>

calc_v ==
    /\ Loaded
    /\ ver["v"] < MaxVer
    /\ data' = CalcV(data)
    /\ ver' = Bump({"v"}, data, CalcV(data))
    /\ UNCHANGED <<filename, disk, pc, err, ioCount, fpos, line, eofReads,
                   lines, idx>>

calc_clock ==
    /\ Loaded
    /\ ver["clock"] < MaxVer
    /\ data' = CalcClock(data)
    /\ ver' = Bump({"clock"}, data, CalcClock(data))
    /\ UNCHANGED <<filename, disk, pc, err, ioCount, fpos, line, eofReads,
                   lines, idx>>

calc_epsilon ==
    /\ Loaded
    /\ ver["epsilon"] < MaxVer
    /\ data' = CalcEpsilon(data)
    /\ ver' = Bump({"epsilon"}, data, CalcEpsilon(data))
    /\ UNCHANGED <<filename, disk, pc, err, ioCount, fpos, line, eofReads,
                   lines, idx>>

\* dict.__setitem__ by the caller: imf[k] = an array of its own
SetItem(k) ==
    /\ Loaded
    /\ ver[k] < MaxVer
    /\ data' = Put(data, k, [j \in 1..Len(data["time"]) |-> Lit(OverrideVal)])
    /\ ver' = [ver EXCEPT ![k] = @ + 1]
    /\ UNCHANGED <<filename, disk, pc, err, ioCount, fpos, line, eofReads,
                   lines, idx>>

Override == \E k \in Derived : SetItem(k)

\* ---------------------------------------------------------- specifications
Next ==
    \/ CheckType
    \/ Open
    \/ SkipLine
    \/ Slurp
    \/ ParseLine
    \/ calc_b
    \/ calc_v
    \/ calc_clock
    \/ calc_epsilon

Spec == Init /\ [][Next]_vars

\* the program together with a caller that stores its own derived arrays
InitUser == InitWith(MaxUserLines)

NextUser == Next \/ Override

SpecUser == InitUser /\ [][NextUser]_vars

\* ------------------------------------------------------------------ claims
\* a line of the file that is the sentinel padded with whitespace only
IsSentinelLine(l) ==
    \E n \in 1..Len(l) :
        l[n] = "#START" /\ \A j \in (1..Len(l)) \ {n} : l[j] \in WS

HasSentinel(f) == \E n \in 1..Len(f) : IsSentinelLine(f[n])

\* the number of the first sentinel line of f
FirstSentinel(f) ==
    CHOOSE n \in 1..Len(f) :
        IsSentinelLine(f[n]) /\ \A j \in 1..(n - 1) : ~ IsSentinelLine(f[j])

Slurped == DOMAIN data # {}

\* the tokens of data line n, and whether its first six form a timestamp
PartsOf(n) == Split(lines[n])
TimeOk(n) == Strptime(Join(Take(PartsOf(n), 6))).kind = "ok"

\* C1: a file without a sentinel line makes the load fail: once readline()
\* has signalled end-of-file to the header-skip loop, the loop does not read
\* again (the load is in its error state instead).
C1_NoSentinelFails ==
    (pc = "skip" /\ ~ HasSentinel(disk)) => eofReads <= 1

\* C2: after a successful load of H header lines, the sentinel and N data
\* lines, `time` and every base field have exactly N entries.
C2_ParseCount ==
    pc = "done" =>
        /\ HasSentinel(disk)
        /\ \A k \in {"time"} \cup BaseKeys :
              /\ k \in DOMAIN data
              /\ Len(data[k]) = Len(disk) - FirstSentinel(disk)

C2_Witness ==
    /\ pc = "done"
    /\ HasSentinel(disk)
    /\ FirstSentinel(disk) = 2
    /\ Len(data["temp"]) = 1
    /\ ver = [k \in Derived |-> 0]

CalcStep == calc_b \/ calc_v \/ calc_clock \/ calc_epsilon

OverrideArr == [j \in 1..Len(data["time"]) |-> Lit(OverrideVal)]

Fresh(d) == [k \in DOMAIN d \ Derived |-> d[k]]

\* C4: whatever calc_b, calc_v, calc_clock calls came before, calc_epsilon
\* leaves all four derived keys present, holding the values calc_epsilon
\* gives when called directly on the freshly loaded dataset.
C4_EpsilonClosure ==
    [][calc_epsilon =>
          /\ Derived \subseteq DOMAIN data'
          /\ Derived \subseteq DOMAIN CalcEpsilon(Fresh(data))
          /\ \A k \in Derived : data'[k] = CalcEpsilon(Fresh(data))[k]]_vars

\* calc_epsilon has run on a dataset in which b, v and clock were present
C4_Witness ==
    /\ pc = "done"
    /\ Len(data["time"]) >= 1
    /\ ver["epsilon"] = 2
    /\ ver["b"] = 1 /\ ver["v"] = 1 /\ ver["clock"] = 1

\* C5: a file argument that is not a string fails with a TypeError before
\* any I/O, and the dataset holds no field.
C5_TypeErrorBeforeIO ==
    /\ filename.type # "str" =>
          /\ pc \in {"init", "error"}
          /\ ioCount = 0 /\ fpos = 0
          /\ DOMAIN data = {}
          /\ pc = "error" => err.kind = "TypeError"
    /\ err.kind = "TypeError" => filename.type # "str"

C5_Witness == pc = "error" /\ err.kind = "TypeError" /\ Len(disk) >= 1

\* C6: on every parsed data line, token 6 is ignored, token 7+j lands in
\* slot i of the j-th field for j < min(8, tokens - 7), the other slots keep
\* zero, tokens after index 14 are dropped, and a short line is no error.
C6_FieldAssignment ==
    Slurped =>
        /\ \A n \in 1..idx : \A j \in 1..Len(keys) :
              data[keys[j]][n] =
                  IF 7 + j <= Len(PartsOf(n)) THEN IntOf[PartsOf(n)[7 + j][1]] ELSE 0
        /\ \A n \in (idx + 2)..Len(lines) : \A j \in 1..Len(keys) :
              data[keys[j]][n] = 0
        /\ (pc = "error" /\ TimeOk(idx + 1)) =>
              \E j \in 8..Len(PartsOf(idx + 1)) :
                  j <= 15 /\ ~ IsFloat(PartsOf(idx + 1)[j])

\* a short line and a sixteen-token line, both loaded
C6_Witness ==
    /\ pc = "done"
    /\ Len(lines) = 2
    /\ Len(PartsOf(1)) = 9
    /\ Len(PartsOf(2)) = 16
    /\ data["by"][1] = 3 /\ data["bz"][1] = 0
    /\ data["temp"][2] = 3

C8_ParseErrorNamesLine ==
    /\ (Slurped /\ \E n \in 1..Len(lines) : ~ TimeOk(n)) => pc # "done"
    /\ (pc = "error" /\ Slurped /\ ~ TimeOk(idx + 1)) =>
          /\ err.kind = "ValueError"
          /\ err.msg = "does not match format"
          /\ err.arg = Join(Take(PartsOf(idx + 1), 6))

\* what one calc_* call may do with a dataset: own is what it may add
Frame(own) ==
    /\ \A k \in {"time"} \cup BaseKeys : k \in DOMAIN data' /\ data'[k] = data[k]
    /\ DOMAIN data \subseteq DOMAIN data'
    /\ (DOMAIN data' \ DOMAIN data) \subseteq own
    /\ \A k \in DOMAIN data \ own : data'[k] = data[k]
    /\ \A k \in DOMAIN data' \ DOMAIN data : Len(data'[k]) = Len(data["time"])

\* C9: a calc_* call leaves time and the base fields unchanged, removes no
\* key and adds only its own (calc_epsilon: epsilon and the missing ones of
\* b, v, clock), each of the base fields' length.
C9_FrameEffect ==
    [][ /\ calc_b => Frame({"b"}) /\ "b" \in DOMAIN data'
        /\ calc_v => Frame({"v"}) /\ "v" \in DOMAIN data'
        /\ calc_clock => Frame({"clock"}) /\ "clock" \in DOMAIN data'
        /\ calc_epsilon =>
             /\ Frame({"epsilon"} \cup ({"b", "v", "clock"} \ DOMAIN data))
             /\ Derived \subseteq DOMAIN data'
      ]_vars

\* calc_v and calc_epsilon have each run once on a non-empty dataset
C9_Witness ==
    /\ pc = "done"
    /\ Len(data["time"]) = 2
    /\ ver = [k \in Derived |-> 1]
    /\ Len(data["epsilon"]) = 2 /\ Len(data["v"]) = 2

\* C10: the header is everything up to the first line that is the sentinel
\* padded with whitespace only; the lines after it, later sentinel lines
\* included, are the data lines.
C10_HeaderEnd ==
    /\ pc = "skip" => \A n \in 1..(fpos - 1) : ~ IsSentinelLine(disk[n])
    /\ Slurped =>
          /\ HasSentinel(disk)
          /\ Len(lines) = Len(disk) - FirstSentinel(disk)
          /\ \A n \in 1..Len(lines) :
                lines[n] = Append(disk[FirstSentinel(disk) + n], "\n")

\* header text containing #START, then a padded sentinel, then a sentinel
\* line read as data
C10_Witness ==
    /\ Slurped
    /\ disk = << <<"#START", " ", "x">>, <<" ", "#START", "\t">>, <<"#START">> >>
    /\ lines = << <<"#START", "\n">> >>
    /\ pc = "error"
====
